---- MODULE Spec2Model ----
(***************************************************************************)
(* The session actor of session/session.go: start/stop lifecycle, the      *)
(* publish queue with its worker goroutine, packet identifier allocation   *)
(* and the outbound/inbound ack trackers.                                  *)
(*                                                                         *)
(* Every goroutine is a process with a program counter; one action is one  *)
(* atomic step of the Go code (an atomic operation, a WaitGroup call, a    *)
(* channel operation, or one critical section of publisher.lock).          *)
(* A Go runtime panic outside the worker's recover() ends the process: it  *)
(* is recorded in `panicked` and nothing runs afterwards.                  *)
(***************************************************************************)
EXTENDS Integers, Sequences, FiniteSets, TLC

(***************************************************************************)
(* Bounds of the model.  Each specification gives the environment a budget *)
(* of calls; an action that makes a call spends one.                        *)
(***************************************************************************)
MaxStarts    == 1   \* Spec: calls of start()
MaxConns     == 1   \* Spec: connections newConnection() creates
MaxStops     == 2   \* calls of stop()
MaxPublish   == 1   \* calls of onSubscribedPublish()
MaxRestore   == 1   \* calls of restore()
MaxTopicOps  == 1   \* calls of addTopic()/removeTopic()
MaxConnErrs  == 1   \* calls of newConnection() that fail
MaxWriteErrs == 1   \* calls of conn.writeMessage() that fail
LifeStarts   == 2   \* SpecLifecycle: calls of start()
LifeConns    == 2   \* SpecLifecycle: connections newConnection() creates
RaceStarts   == 3   \* SpecRace: calls of start()
RaceConns    == 2   \* SpecRace: connections newConnection() creates
LiveStarts   == 1   \* SpecLive: calls of start()
LiveConns    == 1   \* SpecLive: connections newConnection() creates
MaxInbound   == 2   \* SpecInbound: QoS 2 PUBLISH packets the peer sends
MaxInAcks    == 2   \* SpecInbound: PUBREL packets the peer sends

(***************************************************************************)
(* Program constants.                                                      *)
(***************************************************************************)
PacketIDModulus == 65536          \* "& 0xFFFF" keeps the low 16 bits
QosAtMostOnce   == 0
QosAtLeastOnce  == 1
QosExactlyOnce  == 2

Starters == 1..RaceStarts         \* start() calls; also names the connection
                                  \* and the worker that call creates
Stoppers == 1..MaxStops
NilConn  == 0                     \* s.conn == nil
Topics   == {"a/b"}

VARIABLES
  running,            \* s.running (atomic int64)
  closed,             \* s.closed  (atomic int64)
  conn,               \* s.conn: NilConn or the connection's id
  clean,              \* s.clean
  will,               \* s.will != nil
  quit,               \* s.publisher.quit: "nil", "open" or "closed"
  wgSessionStarted,   \* counter of s.wgSessionStarted
  wgSessionStopped,   \* counter of s.wgSessionStopped
  started,            \* counter of s.publisher.started
  stopped,            \* counter of s.publisher.stopped
  messages,           \* s.publisher.messages, front first
  packetID,           \* s.packetID
  pubOut,             \* s.ack.pubOut: set of [pid, uid, type, sent] entries
  pubIn,              \* s.ack.pubIn:  set of [pid, uid, type, sent] entries
  subscriptions,      \* s.config.subscriptions: topic -> qos, on a subset of Topics
  spc,                \* position of each start() call
  serr,               \* err of each start() call
  tpc,                \* position of each stop() call
  wpc,                \* position of each publishWorker goroutine
  wmsg,               \* the message each worker has dequeued
  ppc,                \* position of the onSubscribedPublish call in flight
  pmsg,               \* the message m it built
  pabsent,            \* whether the transport was absent when it was called
  live,               \* connections started and not yet closed
  ocpc,               \* position of each connection's close handler
  panicked,           \* "none" or the Go runtime panic that ended the process
  stamp,              \* number of appends to the queue so far
  budget,             \* how many calls of each kind the environment may still make
  lastSent,           \* seq of the message the transport was handed last
  closeLog,           \* invocations of callbacks.onClose
  forwarded,          \* uids of the messages handed to topicsMgr.Publish, in order
  nesting             \* << lock held, what was called under it >> pairs seen so far

vars == << running, closed, conn, clean, will, quit, wgSessionStarted,
           wgSessionStopped, started, stopped, messages, packetID, pubOut,
           pubIn, subscriptions, spc, serr, tpc, wpc, wmsg, ppc, pmsg, pabsent, live,
           ocpc, panicked, stamp, budget, lastSent, closeLog, forwarded, nesting >>

session   == << running, closed, conn, clean, will, quit >>
barriers  == << wgSessionStarted, wgSessionStopped, started, stopped >>
queue     == << messages, stamp >>
trackers  == << pubOut, pubIn >>
starters  == << spc, serr >>
workers   == << wpc, wmsg >>
producer  == << ppc, pmsg, pabsent >>
transport == << live, ocpc >>
logs      == << lastSent, closeLog, forwarded, nesting >>

NoMsg == [type |-> "none", qos |-> 0, pid |-> 0, dup |-> FALSE, uid |-> 0, seq |-> 0,
          ids |-> 0]

(***************************************************************************)
(* Messages.  uid is the identity of a message object (the stamp of its    *)
(* first append); seq is the stamp of its latest append to the queue; ids  *)
(* counts the packet identifiers the worker has assigned to it.            *)
(***************************************************************************)
NeedsAck(m) == m.type = "PUBREL" \/ (m.type = "PUBLISH" /\ m.qos # QosAtMostOnce)

\* message.NewPublishMessage() with SetQoS, SetRetain(false), SetDup(false)
NewPublish(q) == [type |-> "PUBLISH", qos |-> q, pid |-> 0, dup |-> FALSE]

\* messages a persistence layer hands to restore(): already transmitted once
StoredPublish == [type |-> "PUBLISH", qos |-> QosExactlyOnce, pid |-> 1, dup |-> TRUE]
StoredPubRel  == [type |-> "PUBREL", qos |-> QosAtLeastOnce, pid |-> 2, dup |-> FALSE]
StoredInA     == [type |-> "PUBLISH", qos |-> QosExactlyOnce, pid |-> 5, dup |-> FALSE]
StoredInB     == [type |-> "PUBLISH", qos |-> QosExactlyOnce, pid |-> 5, dup |-> TRUE]

\* the arguments restore() is called with; nil is messages == nil
RestoreInputs ==
  { [nil |-> TRUE,  out |-> << >>, in |-> << >>],
    [nil |-> FALSE, out |-> << StoredPublish >>, in |-> << >>],
    [nil |-> FALSE, out |-> << StoredPubRel, StoredPublish >>, in |-> << StoredInA, StoredInB >>] }

\* the CONNECT packets start() is called with
ConnectMsgs ==
  { [clean |-> TRUE,  will |-> TRUE],
    [clean |-> FALSE, will |-> TRUE] }

\* list.PushBack of the elements of ms, in order, stamping each
RECURSIVE PushBackAll(_, _, _)
PushBackAll(q, ms, st) ==
  IF ms = << >> THEN q
  ELSE PushBackAll(
         Append(q, [type |-> Head(ms).type, qos |-> Head(ms).qos, pid |-> Head(ms).pid,
                    dup |-> Head(ms).dup, uid |-> st + 1, seq |-> st + 1, ids |-> 0]),
         Tail(ms), st + 1)

(***************************************************************************)
(* The ack tracker (ackQueue): entries keyed by packet identifier.         *)
(***************************************************************************)
HasEntry(q, pid) == \E e \in q : e.pid = pid

\* put: keeps the first registration of a packet identifier
AckPut(q, m) ==
  IF HasEntry(q, m.pid) THEN q
  ELSE q \cup { [pid |-> m.pid, uid |-> m.uid, type |-> m.type, sent |-> FALSE] }

\* ack: removes the entry of the packet identifier, if any
AckAck(q, pid) == { e \in q : e.pid # pid }

RECURSIVE AckPutAll(_, _, _)
AckPutAll(q, ms, st) ==
  IF ms = << >> THEN q
  ELSE AckPutAll(AckPut(q, [pid |-> Head(ms).pid, uid |-> 0 - (st + 1),
                            type |-> Head(ms).type]),
                 Tail(ms), st + 1)

(***************************************************************************)
(* sync.WaitGroup and channel operations that can panic.                   *)
(***************************************************************************)
\* WaitGroup.Done() on a counter of zero: "sync: negative WaitGroup counter"
DonePanics(counter) == counter = 0

\* close() of a nil or an already closed channel panics
ClosePanics(ch) == ch # "open"

isDone == quit = "closed"     \* a receive from a nil channel never proceeds

(***************************************************************************)
(* newSession                                                              *)
(***************************************************************************)
InitWith(b, pid, ch) ==
  /\ running = 0 /\ closed = 0 /\ conn = NilConn /\ clean = FALSE /\ will = (ch # "nil")
  /\ quit = ch
  /\ wgSessionStarted = 0 /\ wgSessionStopped = 0 /\ started = 0 /\ stopped = 0
  /\ messages = << >> /\ packetID = pid /\ pubOut = {} /\ pubIn = {}
  /\ subscriptions = { << "a/b", QosAtLeastOnce >> }
  /\ spc = [i \in Starters |-> "idle"] /\ serr = [i \in Starters |-> "nil"]
  /\ tpc = [j \in Stoppers |-> "idle"]
  /\ wpc = [i \in Starters |-> "none"] /\ wmsg = [i \in Starters |-> NoMsg]
  /\ ppc = "idle" /\ pmsg = NoMsg /\ pabsent = FALSE
  /\ live = {} /\ ocpc = [i \in Starters |-> "idle"]
  /\ panicked = "none"
  /\ stamp = 0
  /\ budget = b
  /\ lastSent = 0 /\ closeLog = << >> /\ forwarded = << >>
  /\ nesting = {}

\* a runtime panic outside any recover(): the process ends
Panic(what) ==
  /\ panicked' = what
  /\ UNCHANGED << session, barriers, queue, packetID, trackers, subscriptions,
                  starters, tpc, workers, producer, transport, budget, logs >>

(***************************************************************************)
(* start(msg, conn)                                                        *)
(***************************************************************************)
\* a call is made and passes s.wgSessionStopped.Wait(); calls are numbered in the
\* order they pass it (a call still blocked there has had no effect yet)
StartWaitStopped(i) ==
  /\ spc[i] = "idle"
  /\ \A k \in Starters : k < i => spc[k] # "idle"
  /\ budget.start > 0
  /\ budget' = [budget EXCEPT !.start = @ - 1]
  /\ wgSessionStopped = 0
  /\ spc' = [spc EXCEPT ![i] = "s_cas"]
  /\ UNCHANGED << session, barriers, queue, packetID, trackers, subscriptions, serr,
                  tpc, workers, producer, transport, panicked, logs >>

\* atomic.CompareAndSwapInt64(&s.running, 0, 1)
CasRunning == running = 0

StartCas(i) ==
  /\ spc[i] = "s_cas"
  /\ IF CasRunning
       THEN /\ running' = 1
            /\ spc' = [spc EXCEPT ![i] = "s_add_started"]
            /\ serr' = serr
       ELSE /\ running' = running
            /\ spc' = [spc EXCEPT ![i] = "s_rollback"]
            /\ serr' = [serr EXCEPT ![i] = "Already running"]
  /\ UNCHANGED << closed, conn, clean, will, quit, barriers, queue, packetID, trackers,
                  subscriptions, tpc, workers, producer, transport, panicked, budget, logs >>

\* s.wgSessionStarted.Add(1)
StartAddStarted(i) ==
  /\ spc[i] = "s_add_started"
  /\ wgSessionStarted' = wgSessionStarted + 1
  /\ spc' = [spc EXCEPT ![i] = "s_add_stopped"]
  /\ UNCHANGED << session, wgSessionStopped, started, stopped, queue, packetID, trackers,
                  subscriptions, serr, tpc, workers, producer, transport, panicked,
                  budget, logs >>

\* s.wgSessionStopped.Add(1)
StartAddStopped(i) ==
  /\ spc[i] = "s_add_stopped"
  /\ wgSessionStopped' = wgSessionStopped + 1
  /\ spc' = [spc EXCEPT ![i] = "s_init"]
  /\ UNCHANGED << session, wgSessionStarted, started, stopped, queue, packetID, trackers,
                  subscriptions, serr, tpc, workers, producer, transport, panicked,
                  budget, logs >>

\* the will, s.clean = msg.CleanSession(), s.publisher.quit = make(chan struct{})
StartInit(i) ==
  /\ spc[i] = "s_init"
  /\ \E m \in ConnectMsgs :
       /\ will' = (will \/ m.will)
       /\ clean' = m.clean
  /\ quit' = "open"
  /\ spc' = [spc EXCEPT ![i] = "s_conn"]
  /\ UNCHANGED << running, closed, conn, barriers, queue, packetID, trackers,
                  subscriptions, serr, tpc, workers, producer, transport, panicked,
                  budget, logs >>

\* s.conn, err = newConnection(...): succeeds or fails
StartNewConnection(i) ==
  /\ spc[i] = "s_conn"
  /\ \/ /\ budget.conn > 0
        /\ budget' = [budget EXCEPT !.conn = @ - 1]
        /\ conn' = i
        /\ spc' = [spc EXCEPT ![i] = "s_conn_start"]
        /\ serr' = serr
     \/ /\ budget.connErr > 0
        /\ budget' = [budget EXCEPT !.connErr = @ - 1]
        /\ conn' = NilConn
        /\ spc' = [spc EXCEPT ![i] = "s_rollback"]
        /\ serr' = [serr EXCEPT ![i] = "newConnection"]
  /\ UNCHANGED << running, closed, clean, will, quit, barriers, queue, packetID, trackers,
                  subscriptions, tpc, workers, producer, transport, panicked, logs >>

\* s.conn.start(): a nil s.conn is a nil pointer dereference
StartConnStart(i) ==
  /\ spc[i] = "s_conn_start"
  /\ IF conn = NilConn
       THEN Panic("nil pointer dereference")
       ELSE /\ live' = live \cup {conn}
            /\ spc' = [spc EXCEPT ![i] = "s_spawn"]
            /\ UNCHANGED << session, barriers, queue, packetID, trackers, subscriptions,
                            serr, tpc, workers, producer, ocpc, panicked, budget, logs >>

\* s.publisher.stopped.Add(1); s.publisher.started.Add(1); go s.publishWorker()
StartSpawn(i) ==
  /\ spc[i] = "s_spawn"
  /\ stopped' = stopped + 1
  /\ started' = started + 1
  /\ wpc' = [wpc EXCEPT ![i] = "w_start"]
  /\ spc' = [spc EXCEPT ![i] = "s_wait_worker"]
  /\ UNCHANGED << session, wgSessionStarted, wgSessionStopped, queue, packetID, trackers,
                  subscriptions, serr, tpc, wmsg, producer, transport, panicked,
                  budget, logs >>

\* s.publisher.started.Wait(); return nil
StartWaitWorker(i) ==
  /\ spc[i] = "s_wait_worker"
  /\ started = 0
  /\ spc' = [spc EXCEPT ![i] = "s_done"]
  /\ UNCHANGED << session, barriers, queue, packetID, trackers, subscriptions, serr,
                  tpc, workers, producer, transport, panicked, budget, logs >>

\* the deferred function, err != nil:
\* close(s.publisher.quit); s.conn = nil; atomic.StoreInt64(&s.running, 0)
StartRollback(i) ==
  /\ spc[i] = "s_rollback"
  /\ IF ClosePanics(quit)
       THEN Panic(IF quit = "nil" THEN "close of nil channel"
                                  ELSE "close of closed channel")
       ELSE /\ quit' = "closed"
            /\ conn' = NilConn
            /\ running' = 0
            /\ spc' = [spc EXCEPT ![i] = "s_done"]
            /\ UNCHANGED << closed, clean, will, barriers, queue, packetID, trackers,
                            subscriptions, serr, tpc, workers, producer, transport,
                            panicked, budget, logs >>

\* the deferred function: s.wgSessionStarted.Done(); start returns err
StartDone(i) ==
  /\ spc[i] = "s_done"
  /\ IF DonePanics(wgSessionStarted)
       THEN Panic("negative WaitGroup counter")
       ELSE /\ wgSessionStarted' = wgSessionStarted - 1
            /\ spc' = [spc EXCEPT ![i] = "s_ret"]
            /\ serr' = [serr EXCEPT ![i] = "nil"]
            /\ UNCHANGED << session, wgSessionStopped, started, stopped, queue, packetID,
                            trackers, subscriptions, tpc, workers, producer,
                            transport, panicked, budget, logs >>

(***************************************************************************)
(* stop()                                                                  *)
(***************************************************************************)
\* a swap that never fails: every stop() call runs the teardown
CasClosedAlwaysWins == TRUE

\* atomic.CompareAndSwapInt64(&s.closed, 0, 1)
CasClosed == closed = 0

StopCas(j) ==
  /\ tpc[j] = "idle"
  /\ \A k \in Stoppers : k < j => tpc[k] # "idle"
  /\ budget.stop > 0
  /\ budget' = [budget EXCEPT !.stop = @ - 1]
  /\ IF CasClosed
       THEN /\ closed' = 1
            /\ tpc' = [tpc EXCEPT ![j] = "t_close"]
       ELSE /\ closed' = closed
            /\ tpc' = [tpc EXCEPT ![j] = "t_wait_started"]
  /\ UNCHANGED << running, conn, clean, will, quit, barriers, queue, packetID, trackers,
                  subscriptions, starters, workers, producer, transport, panicked,
                  logs >>

\* no wait at all: the call that lost the swap returns at once
StopLoserReturnsAtOnce == TRUE

\* the barrier the call that lost the swap waits on: s.wgSessionStarted.Wait()
StopLoserMayReturn == wgSessionStarted = 0

StopWaitStarted(j) ==
  /\ tpc[j] = "t_wait_started"
  /\ StopLoserMayReturn
  /\ tpc' = [tpc EXCEPT ![j] = "t_ret"]
  /\ UNCHANGED << session, barriers, queue, packetID, trackers, subscriptions, starters,
                  workers, producer, transport, panicked, budget, logs >>

\* if s.conn != nil { s.conn.config.conn.Close() }: an error is only logged; a
\* transport that was open is now closed and its connection runs the close handler
StopClose(j) ==
  /\ tpc[j] = "t_close"
  /\ tpc' = [tpc EXCEPT ![j] = "t_wait_stopped"]
  /\ IF conn # NilConn /\ conn \in live
       THEN \/ /\ live' = live \ {conn}
               /\ ocpc' = [ocpc EXCEPT ![conn] = "oc_quit"]
            \/ UNCHANGED transport
       ELSE UNCHANGED transport
  /\ UNCHANGED << session, barriers, queue, packetID, trackers, subscriptions, starters,
                  workers, producer, panicked, budget, logs >>

\* s.wgSessionStopped.Wait()
StopWaitStopped(j) ==
  /\ tpc[j] = "t_wait_stopped"
  /\ wgSessionStopped = 0
  /\ tpc' = [tpc EXCEPT ![j] = "t_callback"]
  /\ UNCHANGED << session, barriers, queue, packetID, trackers, subscriptions, starters,
                  workers, producer, transport, panicked, budget, logs >>

\* the argument of callbacks.onClose: s.config.subscriptions
CloseArgs == subscriptions

\* if !s.clean { s.config.callbacks.onClose(s.config.id, s.config.subscriptions) }
StopCallback(j) ==
  /\ tpc[j] = "t_callback"
  /\ closeLog' = IF ~clean THEN Append(closeLog, [by |-> j, subs |-> CloseArgs])
                           ELSE closeLog
  /\ tpc' = [tpc EXCEPT ![j] = "t_ret"]
  /\ UNCHANGED << session, barriers, queue, packetID, trackers, subscriptions, starters,
                  workers, producer, transport, panicked, budget, lastSent,
                  forwarded, nesting >>

(***************************************************************************)
(* sync.Cond of the publish queue                                          *)
(***************************************************************************)
Waiters == { w \in Starters : wpc[w] = "w_wait" }

\* cond.Signal(): wakes one goroutine waiting on the condition, if there is any
CondSignal ==
  IF Waiters = {} THEN wpc' = wpc
  ELSE \E w \in Waiters : wpc' = [wpc EXCEPT ![w] = "w_woken"]

\* cond.Broadcast(): wakes all of them
Broadcast(wp) == [w \in Starters |-> IF wp[w] = "w_wait" THEN "w_woken" ELSE wp[w]]

(***************************************************************************)
(* Calls made while a lock is held                                         *)
(***************************************************************************)
Under(lock, calls) == { << lock, c >> : c \in calls }

(***************************************************************************)
(* restore(messages)                                                       *)
(***************************************************************************)
\* what is called between publisher.lock.Lock() and Unlock() in restore()
RestoreCalls(r) == IF r.in = << >> THEN {} ELSE { "ack.pubIn.put" }

Restore(r) ==
  /\ budget.restore > 0
  /\ budget' = [budget EXCEPT !.restore = @ - 1]
  /\ IF r.nil
       THEN UNCHANGED << queue, pubIn, wpc, nesting >>
       ELSE /\ messages' = PushBackAll(messages, r.out, stamp)
            /\ stamp' = stamp + Len(r.out)
            /\ pubIn' = AckPutAll(pubIn, r.in, 0)
            /\ nesting' = nesting \cup Under("publisher.lock", RestoreCalls(r))
            /\ CondSignal
  /\ UNCHANGED << session, barriers, packetID, pubOut, subscriptions, starters, tpc,
                  wmsg, producer, transport, panicked, lastSent, closeLog, forwarded >>

(***************************************************************************)
(* onSubscribedPublish(msg)                                                *)
(***************************************************************************)
\* the transport of the session is absent: no connection, or a closed one
TransportAbsent == conn = NilConn \/ conn \notin live

\* select { case <-s.publisher.quit: ... default: }
ClientOffline == isDone

\* what is called between publisher.lock.Lock() and Unlock() for an offline client
OfflineCalls == { "callbacks.onPublish" }

\* builds m; a QoS 0 message for an offline client goes to callbacks.onPublish
PublishCheck(q) ==
  /\ ppc = "idle"
  /\ budget.publish > 0
  /\ budget' = [budget EXCEPT !.publish = @ - 1]
  /\ IF q = QosAtMostOnce /\ ClientOffline
       THEN /\ nesting' = nesting \cup Under("publisher.lock", OfflineCalls)
            /\ UNCHANGED producer
       ELSE /\ nesting' = nesting
            /\ ppc' = "push"
            /\ pmsg' = [type |-> "PUBLISH", qos |-> NewPublish(q).qos,
                        pid |-> NewPublish(q).pid, dup |-> NewPublish(q).dup,
                        uid |-> 0, seq |-> 0, ids |-> 0]
            /\ pabsent' = TransportAbsent
  /\ UNCHANGED << session, barriers, queue, packetID, trackers, subscriptions, starters,
                  tpc, workers, transport, panicked, lastSent, closeLog, forwarded >>

\* s.publisher.messages.PushBack(m) under the lock, then cond.Signal()
PublishPush ==
  /\ ppc = "push"
  /\ messages' = Append(messages, [pmsg EXCEPT !.uid = stamp + 1, !.seq = stamp + 1])
  /\ stamp' = stamp + 1
  /\ CondSignal
  /\ ppc' = "idle"
  /\ pmsg' = NoMsg
  /\ pabsent' = FALSE
  /\ UNCHANGED << session, barriers, packetID, trackers, subscriptions, starters, tpc,
                  wmsg, transport, panicked, budget, logs >>

(***************************************************************************)
(* addTopic(topic, qos), removeTopic(topic): called while a connection     *)
(* processes SUBSCRIBE and UNSUBSCRIBE packets                             *)
(***************************************************************************)
addTopic(t, q) ==
  /\ live # {}
  /\ budget.topic > 0
  /\ budget' = [budget EXCEPT !.topic = @ - 1]
  /\ subscriptions' = { e \in subscriptions : e[1] # t } \cup { << t, q >> }
  /\ UNCHANGED << session, barriers, queue, packetID, trackers, starters, tpc, workers,
                  producer, transport, panicked, logs >>

removeTopic(t) ==
  /\ live # {}
  /\ budget.topic > 0
  /\ budget' = [budget EXCEPT !.topic = @ - 1]
  /\ subscriptions' = { e \in subscriptions : e[1] # t }
  /\ UNCHANGED << session, barriers, queue, packetID, trackers, starters, tpc, workers,
                  producer, transport, panicked, logs >>

(***************************************************************************)
(* publishWorker()                                                         *)
(***************************************************************************)
\* s.newPacketID(): the counter after the increment, low 16 bits
newPacketID(counter) == (counter + 1) % PacketIDModulus

\* the worker assigns a packet identifier only to a message that has none
NeedsPacketID(m) == m.pid = 0

\* a loop without the QoS test: removes every message
DrainDropsAll(q) == << >>

\* the deferred loop: removes every *message.PublishMessage of QoS 0
RECURSIVE Drain(_)
Drain(q) ==
  IF q = << >> THEN << >>
  ELSE IF Head(q).type = "PUBLISH" /\ Head(q).qos = QosAtMostOnce
         THEN Drain(Tail(q))
         ELSE << Head(q) >> \o Drain(Tail(q))

\* s.publisher.started.Done()
WorkerStart(i) ==
  /\ wpc[i] = "w_start"
  /\ IF DonePanics(started)
       THEN Panic("negative WaitGroup counter")
       ELSE /\ started' = started - 1
            /\ wpc' = [wpc EXCEPT ![i] = "w_top"]
            /\ UNCHANGED << session, wgSessionStarted, wgSessionStopped, stopped, queue,
                            packetID, trackers, subscriptions, starters, tpc, wmsg,
                            producer, transport, panicked, budget, logs >>

\* the top of the loop: if s.publisher.isDone() { return }
WorkerTop(i) ==
  /\ wpc[i] = "w_top"
  /\ wpc' = [wpc EXCEPT ![i] = IF isDone THEN "w_drain" ELSE "w_lock"]
  /\ UNCHANGED << session, barriers, queue, packetID, trackers, subscriptions, starters,
                  tpc, wmsg, producer, transport, panicked, budget, logs >>

\* with the lock held: an empty queue is waited on, else the front is removed
TakeFront(i) ==
  IF Len(messages) = 0
    THEN /\ wpc' = [wpc EXCEPT ![i] = "w_wait"]
         /\ UNCHANGED << messages, wmsg >>
    ELSE /\ wmsg' = [wmsg EXCEPT ![i] = Head(messages)]
         /\ messages' = Tail(messages)
         /\ wpc' = [wpc EXCEPT ![i] = "w_put"]

\* s.publisher.cond.L.Lock() and the loop over an empty queue
WorkerLock(i) ==
  /\ wpc[i] = "w_lock"
  /\ TakeFront(i)
  /\ UNCHANGED << session, barriers, stamp, packetID, trackers, subscriptions, starters,
                  tpc, producer, transport, panicked, budget, logs >>

\* woken in cond.Wait(): if s.publisher.isDone() { unlock; return }, else loop again
WorkerWoken(i) ==
  /\ wpc[i] = "w_woken"
  /\ IF isDone
       THEN /\ wpc' = [wpc EXCEPT ![i] = "w_drain"]
            /\ UNCHANGED << messages, wmsg >>
       ELSE TakeFront(i)
  /\ UNCHANGED << session, barriers, stamp, packetID, trackers, subscriptions, starters,
                  tpc, producer, transport, panicked, budget, logs >>

\* a QoS 1 or 2 PUBLISH without a packet identifier gets one
Assigns(m) == m.type = "PUBLISH" /\ m.qos # QosAtMostOnce /\ NeedsPacketID(m)

\* the registration before the transmission: a PUBREL is put; a QoS 1 or 2 PUBLISH
\* gets a packet identifier if it has none and is put; a QoS 0 PUBLISH is left alone
WorkerPut(i) ==
  /\ wpc[i] = "w_put"
  /\ LET m  == wmsg[i]
         m2 == IF Assigns(m)
                 THEN [m EXCEPT !.pid = newPacketID(packetID), !.ids = @ + 1]
                 ELSE m
     IN  /\ packetID' = IF Assigns(m) THEN packetID + 1 ELSE packetID
         /\ wmsg' = [wmsg EXCEPT ![i] = m2]
         /\ pubOut' = IF NeedsAck(m) THEN AckPut(pubOut, m2) ELSE pubOut
  /\ wpc' = [wpc EXCEPT ![i] = "w_write"]
  /\ UNCHANGED << session, barriers, queue, pubIn, subscriptions, starters, tpc,
                  producer, transport, panicked, budget, logs >>

\* the peer has received the packet identifier of m
MarkSent(q, m) == { IF e.pid = m.pid THEN [e EXCEPT !.sent = TRUE] ELSE e : e \in q }

\* s.conn.writeMessage(msg): on a nil s.conn the worker panics and recovers in its
\* deferred function; on an open transport the write succeeds or fails; on a closed
\* one it fails
WorkerWrite(i) ==
  /\ wpc[i] = "w_write"
  /\ \/ /\ conn = NilConn
        /\ wpc' = [wpc EXCEPT ![i] = "w_drain"]
        /\ wmsg' = [wmsg EXCEPT ![i] = NoMsg]
        /\ UNCHANGED << budget, lastSent, pubOut >>
     \/ /\ conn # NilConn /\ conn \in live
        /\ lastSent' = wmsg[i].seq
        /\ pubOut' = IF NeedsAck(wmsg[i]) THEN MarkSent(pubOut, wmsg[i]) ELSE pubOut
        /\ wpc' = [wpc EXCEPT ![i] = "w_top"]
        /\ wmsg' = [wmsg EXCEPT ![i] = NoMsg]
        /\ budget' = budget
     \/ /\ conn # NilConn
        /\ budget.writeErr > 0
        /\ budget' = [budget EXCEPT !.writeErr = @ - 1]
        /\ wpc' = [wpc EXCEPT ![i] = "w_fail"]
        /\ UNCHANGED << wmsg, lastSent, pubOut >>
  /\ UNCHANGED << session, barriers, queue, packetID, pubIn, subscriptions, starters,
                  tpc, producer, transport, panicked, closeLog, forwarded, nesting >>

\* the write failed: the registration is taken back, a QoS 1 or 2 PUBLISH is marked dup
WorkerFail(i) ==
  /\ wpc[i] = "w_fail"
  /\ pubOut' = IF NeedsAck(wmsg[i]) THEN AckAck(pubOut, wmsg[i].pid) ELSE pubOut
  /\ wmsg' = [wmsg EXCEPT ![i].dup =
                IF wmsg[i].type = "PUBLISH" /\ wmsg[i].qos # QosAtMostOnce THEN TRUE ELSE @]
  /\ wpc' = [wpc EXCEPT ![i] = "w_requeue"]
  /\ UNCHANGED << session, barriers, queue, packetID, pubIn, subscriptions, starters,
                  tpc, producer, transport, panicked, budget, logs >>

\* s.publisher.messages.PushBack(msg) under the lock; return
WorkerRequeue(i) ==
  /\ wpc[i] = "w_requeue"
  /\ messages' = Append(messages, [wmsg[i] EXCEPT !.seq = stamp + 1])
  /\ stamp' = stamp + 1
  /\ wmsg' = [wmsg EXCEPT ![i] = NoMsg]
  /\ wpc' = [wpc EXCEPT ![i] = "w_drain"]
  /\ UNCHANGED << session, barriers, packetID, trackers, subscriptions, starters, tpc,
                  producer, transport, panicked, budget, logs >>

\* the deferred function: the drain of the queue under the lock
WorkerDrain(i) ==
  /\ wpc[i] = "w_drain"
  /\ messages' = Drain(messages)
  /\ wpc' = [wpc EXCEPT ![i] = "w_done"]
  /\ UNCHANGED << session, barriers, stamp, packetID, trackers, subscriptions, starters,
                  tpc, wmsg, producer, transport, panicked, budget, logs >>

\* the deferred function: s.publisher.stopped.Done(); the goroutine ends
WorkerDone(i) ==
  /\ wpc[i] = "w_done"
  /\ IF DonePanics(stopped)
       THEN Panic("negative WaitGroup counter")
       ELSE /\ stopped' = stopped - 1
            /\ wpc' = [wpc EXCEPT ![i] = "none"]
            /\ UNCHANGED << session, wgSessionStarted, wgSessionStopped, started, queue,
                            packetID, trackers, subscriptions, starters, tpc, wmsg,
                            producer, transport, panicked, budget, logs >>

(***************************************************************************)
(* The connection: its transport ends, its close handler tears the         *)
(* session's worker down, the peer acknowledges what it received.          *)
(***************************************************************************)
\* the peer disconnects or the network fails: the transport is closed and the
\* connection runs its close handler
TransportDown(c) ==
  /\ c \in live
  /\ live' = live \ {c}
  /\ ocpc' = [ocpc EXCEPT ![c] = "oc_quit"]
  /\ UNCHANGED << session, barriers, queue, packetID, trackers, subscriptions, starters,
                  tpc, workers, producer, panicked, budget, logs >>

\* the close handler signals shutdown and wakes the worker
OnCloseQuit(c) ==
  /\ ocpc[c] = "oc_quit"
  /\ quit' = IF quit = "nil" THEN quit ELSE "closed"
  /\ wpc' = Broadcast(wpc)
  /\ ocpc' = [ocpc EXCEPT ![c] = "oc_wait"]
  /\ UNCHANGED << running, closed, conn, clean, will, barriers, queue, packetID, trackers,
                  subscriptions, starters, tpc, wmsg, producer, live, panicked, budget,
                  logs >>

\* the close handler waits for the worker (publisher.stopped.Wait()), releases the
\* connection handle, resets running and releases wgSessionStopped
OnCloseFinish(c) ==
  /\ ocpc[c] = "oc_wait"
  /\ stopped = 0
  /\ conn' = NilConn
  /\ running' = 0
  /\ wgSessionStopped' = IF wgSessionStopped > 0 THEN wgSessionStopped - 1 ELSE 0
  /\ ocpc' = [ocpc EXCEPT ![c] = "idle"]
  /\ UNCHANGED << closed, clean, will, quit, wgSessionStarted, started, stopped, queue,
                  packetID, trackers, subscriptions, starters, tpc, workers, producer,
                  live, panicked, budget, logs >>

\* PUBACK/PUBCOMP for a packet identifier the peer was sent: s.ack.pubOut.ack
PeerAck(pid) ==
  /\ live # {}
  /\ \E e \in pubOut : e.pid = pid /\ e.sent
  /\ pubOut' = AckAck(pubOut, pid)
  /\ UNCHANGED << session, barriers, queue, packetID, pubIn, subscriptions, starters,
                  tpc, workers, producer, transport, panicked, budget, logs >>

(***************************************************************************)
(* The inbound path: the peer publishes with QoS 2, the connection         *)
(* registers the PUBLISH with the inbound tracker and acknowledges it when *)
(* the peer's PUBREL arrives; the tracker then calls onAckIn.              *)
(***************************************************************************)
\* the packet identifier the peer uses for its QoS 2 PUBLISH (and its duplicates)
PeerPacketID == 5

\* publishToTopic(msg): one call of s.config.topicsMgr.Publish(msg)
publishToTopic(log, uid) == Append(log, uid)

\* a handler that forwards nothing
onAckInDrops(log, e) == log

\* onAckIn(msg, status): a *message.PublishMessage is published to its topic
onAckIn(log, e) == IF e.type = "PUBLISH" THEN publishToTopic(log, e.uid) ELSE log

\* a QoS 2 PUBLISH of the peer, a first one or a duplicate: s.ack.pubIn.put
PeerPublish ==
  /\ live # {}
  /\ budget.inbound > 0
  /\ budget' = [budget EXCEPT !.inbound = @ - 1]
  /\ pubIn' = AckPut(pubIn, [pid |-> PeerPacketID, uid |-> 0 - (10 + budget.inbound),
                             type |-> "PUBLISH"])
  /\ UNCHANGED << session, barriers, queue, packetID, pubOut, subscriptions, starters,
                  tpc, workers, producer, transport, panicked, logs >>

\* the peer's PUBREL for a packet identifier: s.ack.pubIn.ack, which calls onAckIn
\* with the registered message if there is one
PeerPubRel(pid) ==
  /\ live # {}
  /\ budget.inAck > 0
  /\ budget' = [budget EXCEPT !.inAck = @ - 1]
  /\ pubIn' = AckAck(pubIn, pid)
  /\ forwarded' = IF HasEntry(pubIn, pid)
                    THEN onAckIn(forwarded, CHOOSE e \in pubIn : e.pid = pid)
                    ELSE forwarded
  /\ UNCHANGED << session, barriers, queue, packetID, pubOut, subscriptions, starters,
                  tpc, workers, producer, transport, panicked, lastSent, closeLog,
                  nesting >>

(***************************************************************************)
(* The specifications                                                      *)
(***************************************************************************)
Pids == { e.pid : e \in pubOut }

StartStep(i) ==
  \/ StartWaitStopped(i) \/ StartCas(i) \/ StartAddStarted(i) \/ StartAddStopped(i)
  \/ StartInit(i) \/ StartNewConnection(i) \/ StartConnStart(i) \/ StartSpawn(i)
  \/ StartWaitWorker(i) \/ StartRollback(i) \/ StartDone(i)

StopStep(j) ==
  \/ StopCas(j) \/ StopWaitStarted(j) \/ StopClose(j) \/ StopWaitStopped(j)
  \/ StopCallback(j)

\* the worker's steps that need no message
WorkerIdleStep(i) ==
  \/ WorkerStart(i) \/ WorkerTop(i) \/ WorkerLock(i) \/ WorkerWoken(i)
  \/ WorkerDrain(i) \/ WorkerDone(i)

\* the worker's steps on a dequeued message
WorkerSendStep(i) == WorkerPut(i) \/ WorkerWrite(i)

WorkerFailStep(i) == WorkerFail(i) \/ WorkerRequeue(i)

CloseStep(c) == TransportDown(c) \/ OnCloseQuit(c) \/ OnCloseFinish(c)

TopicStep == \E t \in Topics : addTopic(t, QosExactlyOnce) \/ removeTopic(t)

PublishStep == (\E q \in {QosAtMostOnce, QosAtLeastOnce} : PublishCheck(q)) \/ PublishPush

\* Spec: every operation, one start() call
Init ==
  InitWith([start |-> MaxStarts, conn |-> MaxConns, stop |-> MaxStops,
            publish |-> MaxPublish, restore |-> MaxRestore, topic |-> MaxTopicOps,
            connErr |-> MaxConnErrs, writeErr |-> MaxWriteErrs,
            inbound |-> 0, inAck |-> 0], 0, "nil")

Next ==
  /\ panicked = "none"
  /\ \/ \E i \in Starters : StartStep(i)
     \/ \E j \in Stoppers : StopStep(j)
     \/ \E r \in RestoreInputs : Restore(r)
     \/ PublishStep
     \/ TopicStep
     \/ \E i \in Starters : WorkerIdleStep(i) \/ WorkerSendStep(i) \/ WorkerFailStep(i)
     \/ \E c \in Starters : CloseStep(c)
     \/ \E pid \in Pids : PeerAck(pid)

Spec == Init /\ [][Next]_vars

\* SpecLifecycle: start() and stop() calls racing on a session without messages
InitLifecycle ==
  InitWith([start |-> LifeStarts, conn |-> LifeConns, stop |-> MaxStops,
            publish |-> 0, restore |-> 0, topic |-> MaxTopicOps,
            connErr |-> MaxConnErrs, writeErr |-> 0, inbound |-> 0, inAck |-> 0],
           0, "nil")

NextLifecycle ==
  /\ panicked = "none"
  /\ \/ \E i \in Starters : StartStep(i)
     \/ \E j \in Stoppers : StopStep(j)
     \/ TopicStep
     \/ \E i \in Starters : WorkerIdleStep(i)
     \/ \E c \in Starters : CloseStep(c)

SpecLifecycle == InitLifecycle /\ [][NextLifecycle]_vars

\* SpecRace: three start() calls racing on a session with restored messages
InitRace ==
  InitWith([start |-> RaceStarts, conn |-> RaceConns, stop |-> 0,
            publish |-> 0, restore |-> MaxRestore, topic |-> 0,
            connErr |-> 0, writeErr |-> 0, inbound |-> 0, inAck |-> 0], 0, "nil")

NextRace ==
  /\ panicked = "none"
  /\ \/ \E i \in Starters : StartStep(i)
     \/ \E r \in RestoreInputs : Restore(r)
     \/ \E i \in Starters : WorkerIdleStep(i) \/ WorkerSendStep(i)

SpecRace == InitRace /\ [][NextRace]_vars

\* SpecWrap: as Spec, on a session whose packet identifier counter has reached
\* 0xFFFF (65535 identifiers were handed out and acknowledged, the connection
\* that used them is gone)
InitWrap ==
  InitWith([start |-> MaxStarts, conn |-> MaxConns, stop |-> MaxStops,
            publish |-> MaxPublish, restore |-> MaxRestore, topic |-> MaxTopicOps,
            connErr |-> MaxConnErrs, writeErr |-> MaxWriteErrs,
            inbound |-> 0, inAck |-> 0],
           PacketIDModulus - 1, "closed")

SpecWrap == InitWrap /\ [][Next]_vars

\* SpecInbound: a started session whose peer publishes with QoS 2, with duplicates,
\* on top of the inbound registrations restore() made
InitInbound ==
  InitWith([start |-> MaxStarts, conn |-> MaxConns, stop |-> 0,
            publish |-> 0, restore |-> MaxRestore, topic |-> 0,
            connErr |-> 0, writeErr |-> 0,
            inbound |-> MaxInbound, inAck |-> MaxInAcks], 0, "nil")

InboundStep == PeerPublish \/ PeerPubRel(PeerPacketID)

NextInbound ==
  /\ panicked = "none"
  /\ \/ \E i \in Starters : StartStep(i)
     \/ \E r \in RestoreInputs : Restore(r)
     \/ \E i \in Starters : WorkerIdleStep(i) \/ WorkerSendStep(i)
     \/ \E pid \in Pids : PeerAck(pid)
     \/ InboundStep

SpecInbound == InitInbound /\ [][NextInbound]_vars

\* SpecLive: a start() call, its worker and its connection's close handler, each
\* goroutine scheduled fairly (the Go scheduler runs every runnable goroutine);
\* nothing is published, so no producer signals the condition variable, and the
\* shutdown signal is not made anew
InitLive ==
  InitWith([start |-> LiveStarts, conn |-> LiveConns, stop |-> 0,
            publish |-> 0, restore |-> 0, topic |-> 0,
            connErr |-> 0, writeErr |-> 0, inbound |-> 0, inAck |-> 0], 0, "nil")

\* the steps of the close handler's goroutine
HandlerStep(c) == OnCloseQuit(c) \/ OnCloseFinish(c)

NextLive ==
  /\ panicked = "none"
  /\ \/ \E i \in Starters : StartStep(i)
     \/ \E i \in Starters : WorkerIdleStep(i)
     \/ \E c \in Starters : CloseStep(c)

FairLive ==
  \A i \in Starters : /\ WF_vars(panicked = "none" /\ StartStep(i))
                       /\ WF_vars(panicked = "none" /\ WorkerIdleStep(i))
                       /\ WF_vars(panicked = "none" /\ HandlerStep(i))

SpecLive == InitLive /\ [][NextLive]_vars /\ FairLive

(***************************************************************************)
(* Claims                                                                  *)
(***************************************************************************)
\* a step of start() call i
StartMoves(i) == spc'[i] # spc[i]

\* C1: a start() call that fails with "Already running" leaves the running flag,
\* the connection handle, the shutdown signal and both barrier counters as they
\* were, and does not panic.
C1_AlreadyRunningLeavesStateUnchanged ==
  [][\A i \in Starters :
       (serr[i] = "Already running" /\ StartMoves(i)) =>
         /\ UNCHANGED << running, conn, quit, wgSessionStarted, wgSessionStopped >>
         /\ panicked' = "none"]_vars

\* C2: the messages are handed to the transport in the order of their (latest)
\* append to the publish queue.
C2_TransmissionInAppendOrder ==
  [][lastSent' # lastSent => lastSent' > lastSent]_vars

\* positions of a stop() call that won the swap and has not returned
StopInFlight == {"t_close", "t_wait_stopped", "t_callback"}

\* C3 (as stated): no stop() call has returned while the stop() call that won the
\* swap is still in flight.
C3_SecondStopReturnsAfterFirst ==
  \A j, k \in Stoppers : tpc[k] \in StopInFlight => tpc[j] # "t_ret"

\* C3 (amended): a stop() call that lost the swap returns only when no start() is
\* between its wgSessionStarted.Add(1) and Done(); it closes no transport, runs
\* no close handler and invokes no callback.
C3_LosingStopWaitsForStartOnly ==
  [][\A j \in Stoppers :
       (tpc[j] = "t_wait_started" /\ tpc'[j] = "t_ret") =>
         /\ wgSessionStarted = 0
         /\ UNCHANGED << closed, live, ocpc, closeLog >>]_vars

\* a stop() call that lost the swap has returned while the first is still blocked
\* on wgSessionStopped
C3_Witness ==
  \E j, k \in Stoppers :
    tpc[j] = "t_ret" /\ tpc[k] = "t_wait_stopped" /\ wgSessionStopped > 0

\* C4: callbacks.onClose is invoked at most once, only while s.clean is false,
\* and with the subscription set the session has at that moment.
C4_OnCloseOnceForUncleanSession ==
  [][closeLog' # closeLog =>
       /\ closeLog = << >>
       /\ ~clean
       /\ Len(closeLog') = 1
       /\ closeLog'[1].subs = subscriptions]_vars

\* every stop() call has returned, the callback ran once, with a subscription set
\* that addTopic or removeTopic had changed
C4_Witness ==
  /\ \A j \in Stoppers : tpc[j] = "t_ret"
  /\ Len(closeLog) = 1
  /\ closeLog[1].subs # { << "a/b", QosAtLeastOnce >> }

\* C5: a QoS 0 message passed to onSubscribedPublish while the session has no
\* transport is never appended to the publish queue.
C5_OfflineQos0NeverQueued ==
  [][(ppc = "push" /\ ppc' = "idle" /\ pmsg.qos = QosAtMostOnce) => ~pabsent]_vars

\* what the drain leaves in the queue
KeptAtExit(m) == m.type = "PUBREL" \/ m.qos # QosAtMostOnce

\* C6: the worker's exit removes every QoS 0 PUBLISH from the queue and keeps the
\* others in their order, on every way out of the loop, before it signals
\* publisher.stopped.
C6_DrainKeepsAckedMessages ==
  [][\A i \in Starters :
       /\ (wpc[i] = "w_drain" /\ wpc'[i] # "w_drain") =>
            (wpc'[i] = "w_done" /\ messages' = SelectSeq(messages, KeptAtExit))
       /\ (wpc[i] # "w_done" /\ wpc'[i] = "w_done") => wpc[i] = "w_drain"
       /\ (wpc[i] \notin {"none", "w_done"} /\ wpc'[i] # wpc[i]) =>
            (stopped' = stopped /\ wpc'[i] # "none")]_vars

\* a worker has drained: the two restored messages are all that is left of three
\* appended ones, and none was transmitted
C6_Witness ==
  /\ \E i \in Starters : wpc[i] = "w_done"
  /\ stamp >= 3 /\ lastSent = 0
  /\ Len(messages) = 2
  /\ messages[1].type = "PUBREL" /\ messages[2].qos = QosExactlyOnce

\* worker i registers the message it holds
WorkerPuts(i) == wpc[i] = "w_put" /\ wpc'[i] = "w_write"

\* C7: the worker assigns a packet identifier to a message once, and never one
\* for which the outbound tracker holds the entry of another message.
C7_PacketIDAssignedOnceAndFree ==
  [][\A i \in Starters :
       (WorkerPuts(i) /\ packetID' # packetID) =>
         /\ wmsg[i].ids = 0
         /\ ~ \E e \in pubOut : e.pid = wmsg'[i].pid /\ e.uid # wmsg[i].uid]_vars

\* C8: every packet identifier the worker assigns is in 1..65535.
C8_PacketIDNeverZero ==
  [][\A i \in Starters :
       (WorkerPuts(i) /\ packetID' # packetID) =>
         wmsg'[i].pid \in 1..(PacketIDModulus - 1)]_vars

\* C9: when a PUBREL or a QoS>0 PUBLISH is handed to the transport, the outbound
\* tracker holds an entry for its packet identifier.
C9_RegisteredWhenTransmitted ==
  [][\A i \in Starters :
       (wpc[i] = "w_write" /\ wpc'[i] # "w_write" /\ conn # NilConn
          /\ NeedsAck(wmsg[i])) =>
         HasEntry(pubOut, wmsg[i].pid)]_vars

\* C10: a session has at most one live connection at any instant.
C10_AtMostOneLiveConnection == Cardinality(live) <= 1

\* C11: the inbound tracker keeps the first registration of a packet identifier;
\* acknowledging an identifier it holds removes the entry and forwards that
\* message to the topics manager exactly once; acknowledging one it does not
\* hold forwards nothing.
C11_InboundForwardedOnce ==
  [][/\ \A e, f \in pubIn : e.pid = f.pid => e = f
     /\ \A e \in pubIn, f \in pubIn' : e.pid = f.pid => e = f
     /\ (pubIn' # pubIn /\ pubIn' \subseteq pubIn) =>
          \E e \in pubIn : /\ pubIn' = pubIn \ {e}
                            /\ forwarded' = Append(forwarded, e.uid)
     /\ ~ (pubIn' # pubIn /\ pubIn' \subseteq pubIn) => forwarded' = forwarded]_vars

\* restore() registered two messages with one identifier, the peer acknowledged
\* it twice: the first of the two was forwarded, once
C11_Witness ==
  /\ budget.restore = 0 /\ budget.inAck = 0 /\ budget.inbound = MaxInbound
  /\ pubIn = {}
  /\ forwarded = << 0 - 1 >>

\* the positions of a worker after a failed write, in order
AfterFailure == << "w_fail", "w_requeue", "w_drain", "w_done", "none" >>

\* C12: after a failed write the worker removes from the outbound tracker the
\* registration of the message it holds and no other, sets the duplicate flag of
\* a QoS 1 or 2 PUBLISH, appends the message to the tail of the queue, and goes
\* on to its exit without another transmission.
C12_WriteFailureRollsBack ==
  [][\A i \in Starters :
       /\ (wpc[i] = "w_fail" /\ wpc'[i] # "w_fail") =>
            /\ pubOut' \subseteq pubOut
            /\ \A e \in pubOut \ pubOut' : e.uid = wmsg[i].uid
            /\ \A e \in pubOut' : e.uid # wmsg[i].uid
            /\ (wmsg[i].type = "PUBLISH" /\ wmsg[i].qos # QosAtMostOnce) => wmsg'[i].dup
       /\ (wpc[i] = "w_requeue" /\ wpc'[i] # "w_requeue") =>
            /\ Len(messages') = Len(messages) + 1
            /\ SubSeq(messages', 1, Len(messages)) = messages
            /\ messages'[Len(messages')].uid = wmsg[i].uid
            /\ messages'[Len(messages')].dup = wmsg[i].dup
       /\ \A k \in 1..4 :
            (wpc[i] = AfterFailure[k] /\ wpc'[i] # wpc[i] /\ (k < 3 \/ wmsg[i] = NoMsg)) =>
              wpc'[i] = AfterFailure[k + 1]]_vars

\* start() call i is the only one at a step that can panic
OnlyStartInDefer(i) ==
  \A k \in Starters \ {i} : spc[k] \notin {"s_conn_start", "s_rollback", "s_done"}

\* C13: a start() call whose newConnection failed runs its rollback to the end:
\* it closes the shutdown signal, clears the connection handle and resets running
\* without panicking, launches no worker, and returns.
C13_FailedStartRollsBack ==
  [][\A i \in Starters :
       (serr[i] = "newConnection" /\ spc[i] = "s_rollback") =>
         /\ wpc[i] = "none"
         /\ OnlyStartInDefer(i) => panicked' = "none"
         /\ StartMoves(i) =>
              (quit' = "closed" /\ conn' = NilConn /\ running' = 0 /\ wpc'[i] = "none")]_vars

\* publishWorker goroutines that have been launched and have not ended
WorkersAlive == { i \in Starters : wpc[i] # "none" }

\* C14: callbacks.onClose is invoked only while no publish worker is alive: every
\* worker of the session has drained the queue and ended.
C14_CallbackAfterWorkerExit ==
  [][closeLog' # closeLog => WorkersAlive = {}]_vars

\* C15: nothing is called and no other lock is taken while publisher.lock is
\* held: neither an ack tracker's put nor a manager callback.
C15_NothingCalledUnderQueueLock == nesting = {}

\* publishWorker goroutines inside the loop: past started.Done(), not yet in the
\* deferred function
Consuming ==
  { i \in Starters : wpc[i] \in {"w_top", "w_lock", "w_wait", "w_woken", "w_put",
                                  "w_write", "w_fail", "w_requeue"} }

\* C16: at most one publish worker consumes from the session's queue at any
\* instant.
C16_AtMostOneWorker == Cardinality(Consuming) <= 1

\* C17: once the shutdown signal is closed, every publish worker that is alive
\* eventually ends (having signalled publisher.stopped), unless the process has
\* panicked.
C17_WorkerExitsAfterQuit ==
  \A i \in Starters :
    (quit = "closed" /\ wpc[i] # "none") ~> (wpc[i] = "none" \/ panicked # "none")

\* the Go runtime panics of start's deferred function
RollbackPanics ==
  { "close of nil channel", "close of closed channel", "negative WaitGroup counter" }

\* C18: no start() call panics in its deferred function: publisher.quit is never
\* closed while nil or already closed, wgSessionStarted never goes below zero.
C18_NoPanicInRollback == panicked \notin RollbackPanics

\* C19: when a start() call whose newConnection failed returns, wgSessionStopped
\* is back at zero, its value before the call.
C19_FailedStartReleasesStopBarrier ==
  [][\A i \in Starters :
       (serr[i] = "newConnection" /\ spc[i] = "s_done" /\ spc'[i] = "s_ret") =>
         wgSessionStopped' = 0]_vars

\* the uids of the messages that need an acknowledgement and are in the queue or
\* in the hands of a worker
Held ==
  { messages[k].uid : k \in { n \in 1..Len(messages) : NeedsAck(messages[n]) } }
    \cup { wmsg[i].uid : i \in { w \in Starters : NeedsAck(wmsg[w]) } }

\* C20: a PUBREL or QoS 1 or 2 PUBLISH leaves the queue and the worker only by a
\* successful write, made while the outbound tracker holds an entry for its
\* packet identifier.
C20_NoAckedMessageLost ==
  [][\A u \in Held \ Held' :
       \E i \in Starters :
         /\ wmsg[i].uid = u
         /\ wpc[i] = "w_write"
         /\ lastSent' = wmsg[i].seq
         /\ HasEntry(pubOut, wmsg[i].pid)]_vars
====
